---- MODULE Spec2Model ----
(***************************************************************************)
(* Airtable proxy edge functions of prioai-admin.                          *)
(*                                                                         *)
(* Two handler files exist, each a module with its own rate-limit map:     *)
(*   variant "A"  src/unnamed/part_000          (path-segment form)        *)
(*   variant "B"  src/functions/api/airtable.js (query-parameter form)     *)
(* The variable `variant` says which file the running instance serves.     *)
(*                                                                         *)
(* JavaScript runs each handler to its next await without interruption, so *)
(* one action is the code between two awaits.                              *)
(***************************************************************************)
EXTENDS Integers, Sequences, FiniteSets, TLC

VARIABLES
    variant,         \* which handler file is deployed: "A" or "B"
    now,             \* Date.now(), in scaled milliseconds
    rateLimitStore,  \* rateLimitStore (A) / rateLimitMap (B): ip -> record
    pc,              \* per invocation: "idle", "body", "fetch", "respbody", "done"
    req,             \* per invocation: the request (and env) it was called with
    local,           \* per invocation: the handler's local constants
    resp,            \* per invocation: the Response returned (or the fault thrown)
    calls,           \* per invocation: the upstream fetch() calls it issued
    lastCheck,       \* history: the last checkRateLimit call and its outcome
    admitLog         \* history: ip -> age -> number of requests admitted that long ago

vars == <<variant, now, rateLimitStore, pc, req, local, resp, calls, lastCheck, admitLog>>

(***************************************************************************)
(* Bounds of the model.  RATE_LIMIT and RATE_WINDOW are the source's       *)
(* constants (1000 requests, 60000 ms) scaled down; the code only compares *)
(* with them, adds to them and subtracts them.                             *)
(***************************************************************************)
RATE_LIMIT == 2
RATE_WINDOW == 2
MaxTime == 4
MaxProcs == 2

(***************************************************************************)
(* Strings: JavaScript string operations, on TLA+ strings.                 *)
(***************************************************************************)
StartsWith(s, p) == Len(p) <= Len(s) /\ SubSeq(s, 1, Len(p)) = p

RECURSIVE IndexFrom(_, _, _)
IndexFrom(s, p, i) ==
    IF i + Len(p) - 1 > Len(s) THEN 0
    ELSE IF SubSeq(s, i, i + Len(p) - 1) = p THEN i
    ELSE IndexFrom(s, p, i + 1)

\* String.prototype.replace with a string pattern: the first occurrence only.
ReplaceFirst(s, p, r) ==
    LET i == IndexFrom(s, p, 1)
    IN  IF i = 0 THEN s
        ELSE SubSeq(s, 1, i - 1) \o r \o SubSeq(s, i + Len(p), Len(s))

\* String.prototype.split(sep) for a one-character separator.
RECURSIVE SplitFrom(_, _, _, _)
SplitFrom(s, sep, i, cur) ==
    IF i > Len(s) THEN <<cur>>
    ELSE IF SubSeq(s, i, i) = sep
         THEN <<cur>> \o SplitFrom(s, sep, i + 1, "")
         ELSE SplitFrom(s, sep, i + 1, cur \o SubSeq(s, i, i))

Split(s, sep) == SplitFrom(s, sep, 1, "")

\* Array.prototype.filter(Boolean) on strings: the empty string is falsy.
RECURSIVE FilterNonEmpty(_)
FilterNonEmpty(q) ==
    IF q = <<>> THEN <<>>
    ELSE IF Head(q) = "" THEN FilterNonEmpty(Tail(q))
    ELSE <<Head(q)>> \o FilterNonEmpty(Tail(q))

RECURSIVE Join(_, _)
Join(q, sep) ==
    IF q = <<>> THEN ""
    ELSE IF Len(q) = 1 THEN q[1]
    ELSE q[1] \o sep \o Join(Tail(q), sep)

HexDigits == {"0","1","2","3","4","5","6","7","8","9",
              "a","b","c","d","e","f","A","B","C","D","E","F"}

\* The ASCII escapes of the modelled alphabet (upper- and lower-case hex).
AsciiEscapes == [e \in {"20", "25", "2E", "2e", "2F", "2f", "54"} |->
                    CASE e = "20" -> " "
                      [] e = "25" -> "%"
                      [] e \in {"2E", "2e"} -> "."
                      [] e \in {"2F", "2f"} -> "/"
                      [] e = "54" -> "T"]

URIError == "\\URIError"

\* decodeURIComponent: every "%" must start a two-hex-digit escape, and a
\* lone byte >= 0x80 is not valid UTF-8; both throw URIError.  The result
\* is URIError when it throws.  Escapes outside AsciiEscapes with a first
\* digit below 8 are outside the modelled alphabet and are kept as written.
RECURSIVE DecodeFrom(_, _, _)
DecodeFrom(s, i, acc) ==
    IF i > Len(s) THEN acc
    ELSE IF SubSeq(s, i, i) # "%" THEN DecodeFrom(s, i + 1, acc \o SubSeq(s, i, i))
    ELSE IF i + 2 > Len(s) THEN URIError
    ELSE IF SubSeq(s, i + 1, i + 1) \notin HexDigits
            \/ SubSeq(s, i + 2, i + 2) \notin HexDigits THEN URIError
    ELSE IF SubSeq(s, i + 1, i + 1) \notin {"0","1","2","3","4","5","6","7"} THEN URIError
    ELSE LET e == SubSeq(s, i + 1, i + 2)
         IN  IF e \in DOMAIN AsciiEscapes
             THEN DecodeFrom(s, i + 3, acc \o AsciiEscapes[e])
             ELSE DecodeFrom(s, i + 3, acc \o SubSeq(s, i, i + 2))

decodeURIComponent(s) == DecodeFrom(s, 1, "")

\* encodeURIComponent on the modelled alphabet: letters, digits and "." are
\* unreserved; space, "%" and "/" are escaped.
RECURSIVE EncodeFrom(_, _)
EncodeFrom(s, i) ==
    IF i > Len(s) THEN ""
    ELSE LET c == SubSeq(s, i, i)
         IN  (CASE c = " " -> "%20"
                [] c = "%" -> "%25"
                [] c = "/" -> "%2F"
                [] OTHER -> c) \o EncodeFrom(s, i + 1)

encodeURIComponent(s) == EncodeFrom(s, 1)

\* String.prototype.trim on the modelled alphabet (spaces only).
RECURSIVE TrimLeft(_)
TrimLeft(s) == IF Len(s) > 0 /\ SubSeq(s, 1, 1) = " " THEN TrimLeft(SubSeq(s, 2, Len(s))) ELSE s

RECURSIVE TrimRight(_)
TrimRight(s) ==
    IF Len(s) > 0 /\ SubSeq(s, Len(s), Len(s)) = " "
    THEN TrimRight(SubSeq(s, 1, Len(s) - 1)) ELSE s

Trim(s) == TrimRight(TrimLeft(s))

(***************************************************************************)
(* URL parsing (WHATWG URL, special scheme): what `new URL(...)` and       *)
(* fetch(string) do to the path of an https URL.  The input is the text    *)
(* after the authority, starting with "/".                                 *)
(***************************************************************************)
RECURSIVE CutAt(_, _, _)
CutAt(s, stops, i) ==
    IF i > Len(s) THEN s
    ELSE IF SubSeq(s, i, i) \in stops THEN SubSeq(s, 1, i - 1)
    ELSE CutAt(s, stops, i + 1)

SingleDot == {".", "%2e", "%2E"}
DoubleDot == {"..", ".%2e", ".%2E", "%2e.", "%2E.", "%2e%2e", "%2E%2e", "%2e%2E", "%2E%2E"}

\* Path percent-encode set on the modelled alphabet: a space becomes %20.
RECURSIVE PathEncodeFrom(_, _)
PathEncodeFrom(s, i) ==
    IF i > Len(s) THEN ""
    ELSE (IF SubSeq(s, i, i) = " " THEN "%20" ELSE SubSeq(s, i, i)) \o PathEncodeFrom(s, i + 1)

DropLast(q) == IF q = <<>> THEN q ELSE SubSeq(q, 1, Len(q) - 1)

\* The path state of the URL parser: "." and ".." segments are resolved.
RECURSIVE PathState(_, _)
PathState(rest, out) ==
    IF rest = <<>> THEN out
    ELSE LET seg == Head(rest)
             last == Len(rest) = 1
         IN  IF seg \in DoubleDot
             THEN PathState(Tail(rest), IF last THEN DropLast(out) \o <<"">> ELSE DropLast(out))
             ELSE IF seg \in SingleDot
             THEN PathState(Tail(rest), IF last THEN out \o <<"">> ELSE out)
             ELSE PathState(Tail(rest), out \o <<PathEncodeFrom(seg, 1)>>)

\* The segments of the parsed URL's path ("/a/b" is <<"a", "b">>).
UrlPathSegments(raw) == PathState(Tail(Split(CutAt(raw, {"?", "#"}, 1), "/")), <<>>)

\* URL.pathname of the parsed URL.
UrlPathname(raw) == "/" \o Join(UrlPathSegments(raw), "/")

(***************************************************************************)
(* Configuration of the two files.                                         *)
(***************************************************************************)
ALLOWED_ORIGINS ==
    {"https://prioai.ca", "https://www.prioai.ca", "https://dashboard.prioai.ca",
     "http://localhost:3000", "http://localhost:8788",
     "http://127.0.0.1:3000", "http://127.0.0.1:8788"}

\* ALLOWED_ORIGINS[0], the fallback origin of variant B.
DefaultOrigin == "https://prioai.ca"

ALLOWED_PATHS ==
    [bases  |-> {"appXXXXXXXXXXXXXX"},
     tables |-> {"Clients", "Calls", "Leads", "Costs", "Revenue", "Settings"}]

ALLOWED_BASE == "applOjDjhH0RqLtBH"

ALLOWED_TABLES ==
    {"Admin%20Settings", "Admin Settings", "Team%20Members", "Team Members",
     "tblMptC862PyL7Znw", "tblvB5OpG0b5mVix3", "tblLpN4wceakfNFpq"}

BodyMethods == {"POST", "PATCH", "PUT"}

\* Mutant: the handler has no preflight short-circuit.
IsPreflight_Missing(r) == FALSE

\* The preflight test at the head of both handlers.
IsPreflight(r) == r.method = "OPTIONS"

\* `!airtableToken`: env.AIRTABLE_TOKEN is undefined or empty.
MissingToken(r) == r.token = ""

\* Mutant: only the body of a POST is read and parsed.
readsBodyA_PostOnly(r) == r.method = "POST"

\* part_000, line 180: the methods whose body the handler reads and parses.
readsBodyA(r) == r.method \in BodyMethods

\* airtable.js, line 155: the methods whose body the handler passes on.
readsBodyB(r) == r.method \in BodyMethods

(***************************************************************************)
(* Rate limiter.  The store is a Map: a function whose domain is the set   *)
(* of keys present.  The result carries the store after the call.          *)
(***************************************************************************)
MapSet(m, k, v) == [i \in DOMAIN m \cup {k} |-> IF i = k THEN v ELSE m[i]]

\* part_000, getRateLimitKey.
getRateLimitKey(r) ==
    IF r.cfIp # "" THEN r.cfIp
    ELSE IF r.xff # "" /\ Trim(Split(r.xff, ",")[1]) # "" THEN Trim(Split(r.xff, ",")[1])
    ELSE "unknown"

\* airtable.js, the clientIP expression of onRequest (no trim).
clientIPB(r) ==
    IF r.cfIp # "" THEN r.cfIp
    ELSE IF r.xff # "" /\ Split(r.xff, ",")[1] # "" THEN Split(r.xff, ",")[1]
    ELSE "unknown"

\* Mutant: the window is reset as soon as it is RATE_WINDOW old.
checkRateLimitA_ResetAtWindow(store, ip, t) ==
    IF ip \notin DOMAIN store \/ t - store[ip].timestamp >= RATE_WINDOW
    THEN [store     |-> MapSet(store, ip, [count |-> 1, timestamp |-> t]),
          allowed   |-> TRUE,
          remaining |-> RATE_LIMIT - 1,
          resetAt   |-> -1]
    ELSE IF store[ip].count >= RATE_LIMIT
    THEN [store     |-> store,
          allowed   |-> FALSE,
          remaining |-> 0,
          resetAt   |-> store[ip].timestamp + RATE_WINDOW]
    ELSE [store     |-> [store EXCEPT ![ip].count = @ + 1],
          allowed   |-> TRUE,
          remaining |-> RATE_LIMIT - (store[ip].count + 1),
          resetAt   |-> -1]

\* Mutant: the limit test lets one request more through per window.
checkRateLimitA_OneTooMany(store, ip, t) ==
    IF ip \notin DOMAIN store \/ t - store[ip].timestamp > RATE_WINDOW
    THEN [store     |-> MapSet(store, ip, [count |-> 1, timestamp |-> t]),
          allowed   |-> TRUE,
          remaining |-> RATE_LIMIT - 1,
          resetAt   |-> -1]
    ELSE IF store[ip].count > RATE_LIMIT
    THEN [store     |-> store,
          allowed   |-> FALSE,
          remaining |-> 0,
          resetAt   |-> store[ip].timestamp + RATE_WINDOW]
    ELSE [store     |-> [store EXCEPT ![ip].count = @ + 1],
          allowed   |-> TRUE,
          remaining |-> RATE_LIMIT - (store[ip].count + 1),
          resetAt   |-> -1]

\* Mutant: an admitted request within the window is not counted.
checkRateLimitA_LostIncrement(store, ip, t) ==
    IF ip \notin DOMAIN store \/ t - store[ip].timestamp > RATE_WINDOW
    THEN [store     |-> MapSet(store, ip, [count |-> 1, timestamp |-> t]),
          allowed   |-> TRUE,
          remaining |-> RATE_LIMIT - 1,
          resetAt   |-> -1]
    ELSE IF store[ip].count >= RATE_LIMIT
    THEN [store     |-> store,
          allowed   |-> FALSE,
          remaining |-> 0,
          resetAt   |-> store[ip].timestamp + RATE_WINDOW]
    ELSE [store     |-> store,
          allowed   |-> TRUE,
          remaining |-> RATE_LIMIT - (store[ip].count + 1),
          resetAt   |-> -1]

\* part_000, checkRateLimit: records are {count, timestamp}.
checkRateLimitA(store, ip, t) ==
    IF ip \notin DOMAIN store \/ t - store[ip].timestamp > RATE_WINDOW
    THEN [store     |-> MapSet(store, ip, [count |-> 1, timestamp |-> t]),
          allowed   |-> TRUE,
          remaining |-> RATE_LIMIT - 1,
          resetAt   |-> -1]
    ELSE IF store[ip].count >= RATE_LIMIT
    THEN [store     |-> store,
          allowed   |-> FALSE,
          remaining |-> 0,
          resetAt   |-> store[ip].timestamp + RATE_WINDOW]
    ELSE [store     |-> [store EXCEPT ![ip].count = @ + 1],
          allowed   |-> TRUE,
          remaining |-> RATE_LIMIT - (store[ip].count + 1),
          resetAt   |-> -1]

\* airtable.js, checkRateLimit: records are {windowStart, count}; the result
\* is a boolean, so remaining and resetAt do not exist (-1).
\* Mutant: a rejected call restarts the client's window.
checkRateLimitB_RejectRestartsWindow(store, ip, t) ==
    IF ip \notin DOMAIN store \/ t - store[ip].windowStart > RATE_WINDOW
    THEN [store     |-> MapSet(store, ip, [windowStart |-> t, count |-> 1]),
          allowed   |-> TRUE,
          remaining |-> -1,
          resetAt   |-> -1]
    ELSE IF store[ip].count >= RATE_LIMIT
    THEN [store     |-> [store EXCEPT ![ip].windowStart = t],
          allowed   |-> FALSE,
          remaining |-> -1,
          resetAt   |-> -1]
    ELSE [store     |-> [store EXCEPT ![ip].count = @ + 1],
          allowed   |-> TRUE,
          remaining |-> -1,
          resetAt   |-> -1]

checkRateLimitB(store, ip, t) ==
    IF ip \notin DOMAIN store \/ t - store[ip].windowStart > RATE_WINDOW
    THEN [store     |-> MapSet(store, ip, [windowStart |-> t, count |-> 1]),
          allowed   |-> TRUE,
          remaining |-> -1,
          resetAt   |-> -1]
    ELSE IF store[ip].count >= RATE_LIMIT
    THEN [store |-> store, allowed |-> FALSE, remaining |-> -1, resetAt |-> -1]
    ELSE [store     |-> [store EXCEPT ![ip].count = @ + 1],
          allowed   |-> TRUE,
          remaining |-> -1,
          resetAt   |-> -1]

(***************************************************************************)
(* CORS headers.  A header map is a set of <<name, value>> pairs.          *)
(***************************************************************************)
\* part_000, getCorsHeaders (strict): request.headers.get('Origin') is null
\* when the header is absent; "" stands for null.
getCorsHeadersA(r) ==
    {<<"Access-Control-Allow-Methods", "GET, POST, PATCH, DELETE, OPTIONS">>,
     <<"Access-Control-Allow-Headers", "Content-Type, Authorization, X-Requested-With">>,
     <<"Access-Control-Max-Age", "86400">>}
    \cup (IF r.origin # "" /\ r.origin \in ALLOWED_ORIGINS
          THEN {<<"Access-Control-Allow-Origin", r.origin>>,
                <<"Access-Control-Allow-Credentials", "true">>}
          ELSE {})

\* Mutant: the request's origin is echoed whatever it is.
getCorsHeadersB_Echo(origin) ==
    {<<"Access-Control-Allow-Origin", origin>>,
     <<"Access-Control-Allow-Methods", "GET, POST, PATCH, DELETE, OPTIONS">>,
     <<"Access-Control-Allow-Headers", "Content-Type">>,
     <<"Access-Control-Max-Age", "86400">>}

\* airtable.js, getCorsHeaders (lenient, with fallback).
getCorsHeadersB(origin) ==
    {<<"Access-Control-Allow-Origin",
       IF origin \in ALLOWED_ORIGINS THEN origin ELSE DefaultOrigin>>,
     <<"Access-Control-Allow-Methods", "GET, POST, PATCH, DELETE, OPTIONS">>,
     <<"Access-Control-Allow-Headers", "Content-Type">>,
     <<"Access-Control-Max-Age", "86400">>}

\* {...a, ...b}: the later map wins on a shared name.
Spread(a, b) == {h \in a : \A g \in b : g[1] # h[1]} \cup b

JsonType == {<<"Content-Type", "application/json">>}

(***************************************************************************)
(* Path validation.  A validation result is a record; `threw` is TRUE when *)
(* the function did not return but threw.                                  *)
(***************************************************************************)
Invalid(e) == [valid |-> FALSE, threw |-> FALSE, error |-> e,
               baseId |-> "", tableName |-> "", recordId |-> ""]

\* part_000, validatePath.  parts[2] is undefined for two parts ("" here).
validatePathA(path) ==
    LET parts == FilterNonEmpty(Split(path, "/"))
    IN  IF Len(parts) < 2 \/ Len(parts) > 3 THEN Invalid("Invalid path format")
        ELSE IF parts[1] \notin ALLOWED_PATHS.bases THEN Invalid("Base not allowed")
        ELSE IF parts[2] \notin ALLOWED_PATHS.tables THEN Invalid("Table not allowed")
        ELSE [valid |-> TRUE, threw |-> FALSE, error |-> "",
              baseId |-> parts[1], tableName |-> parts[2],
              recordId |-> IF Len(parts) = 3 THEN parts[3] ELSE ""]

\* airtable.js, validatePath.  "" stands for a null path too (both falsy).
validatePathB(path) ==
    IF path = "" THEN Invalid("Missing path parameter")
    ELSE IF ~StartsWith(path, ALLOWED_BASE) THEN Invalid("Invalid base ID")
    ELSE LET pathParts == Split(ReplaceFirst(path, ALLOWED_BASE \o "/", ""), "/")
             table == pathParts[1]
         IN  IF table = "" THEN Invalid("Missing table name")
             ELSE LET decodedTable == decodeURIComponent(table)
                  IN  IF decodedTable = URIError
                      THEN [Invalid("URIError") EXCEPT !.threw = TRUE]
                      ELSE IF table \notin ALLOWED_TABLES /\ decodedTable \notin ALLOWED_TABLES
                      THEN Invalid("Table not allowed")
                      ELSE [valid |-> TRUE, threw |-> FALSE, error |-> "",
                            baseId |-> "", tableName |-> "", recordId |-> ""]

(***************************************************************************)
(* Requests, responses and upstream calls.                                 *)
(***************************************************************************)
Procs == 1 .. MaxProcs

\* URLSearchParams.get(name): the first value of that name, or null ("").
RECURSIVE SearchGet(_, _)
SearchGet(query, name) ==
    IF query = <<>> THEN ""
    ELSE IF Head(query)[1] = name THEN Head(query)[2]
    ELSE SearchGet(Tail(query), name)

\* URLSearchParams.set(name, value): replaces the first pair of that name
\* and drops the others, or appends.
RECURSIVE DropName(_, _)
DropName(query, name) ==
    IF query = <<>> THEN <<>>
    ELSE IF Head(query)[1] = name THEN DropName(Tail(query), name)
    ELSE <<Head(query)>> \o DropName(Tail(query), name)

RECURSIVE SearchSet(_, _, _)
SearchSet(query, name, value) ==
    IF query = <<>> THEN <<<<name, value>>>>
    ELSE IF Head(query)[1] = name THEN <<<<name, value>>>> \o DropName(Tail(query), name)
    ELSE <<Head(query)>> \o SearchSet(Tail(query), name, value)

\* URL.search of the inbound URL: "" without parameters, else "?k=v&...".
RECURSIVE SerializePairs(_)
SerializePairs(query) ==
    IF query = <<>> THEN ""
    ELSE Head(query)[1] \o "=" \o encodeURIComponent(Head(query)[2])
         \o (IF Len(query) > 1 THEN "&" ELSE "") \o SerializePairs(Tail(query))

UrlSearch(query) == IF query = <<>> THEN "" ELSE "?" \o SerializePairs(query)

\* The query text a URL string carries: after the first "?", before any "#".
QueryOf(raw) ==
    LET i == IndexFrom(raw, "?", 1)
    IN  IF i = 0 THEN "" ELSE CutAt(SubSeq(raw, i + 1, Len(raw)), {"#"}, 1)

\* `auth` is the Authorization header the client sent, `token` is
\* env.AIRTABLE_TOKEN.
NoReq == [method |-> "", origin |-> "", auth |-> "", cfIp |-> "", xff |-> "", path |-> "",
          query |-> <<>>, body |-> "", token |-> ""]

NoValidation == Invalid("")

NoLocal == [rateLimit  |-> [allowed |-> FALSE, remaining |-> -1, resetAt |-> -1],
            checked    |-> FALSE,
            validation |-> NoValidation,
            url        |-> "",
            fetchBody  |-> "",
            upstream   |-> [status |-> 0, body |-> ""]]

NoResp == [kind |-> "none", status |-> 0, error |-> "", hasBody |-> FALSE,
           payload |-> "", resetAt |-> -1, details |-> "", hdrs |-> {}]

\* new Response(JSON.stringify({error, ...}), {status, headers}).
ErrorResponse(status, error, hdrs) ==
    [kind |-> "response", status |-> status, error |-> error, hasBody |-> TRUE,
     payload |-> "", resetAt |-> -1, details |-> "", hdrs |-> hdrs]

\* new Response(null, {status: 204, headers}).
PreflightResponse(hdrs) ==
    [kind |-> "response", status |-> 204, error |-> "", hasBody |-> FALSE,
     payload |-> "", resetAt |-> -1, details |-> "", hdrs |-> hdrs]

\* new Response(data, {status, headers}) relaying the upstream.
RelayResponse(status, data, hdrs) ==
    [kind |-> "response", status |-> status, error |-> "", hasBody |-> TRUE,
     payload |-> data, resetAt |-> -1, details |-> "", hdrs |-> hdrs]

\* The promise of onRequest rejects: the error left the handler.
Fault(name) == [NoResp EXCEPT !.kind = "fault", !.error = name]

\* The Response constructor throws RangeError for a status outside 200..599
\* and TypeError for a body with a null-body status.
NullBodyStatus == {204, 205, 304}
ResponseThrows(status, hasBody) ==
    status < 200 \/ status > 599 \/ (hasBody /\ status \in NullBodyStatus)

\* JSON texts of the model, with JSON.stringify(JSON.parse(text)).
JsonCanon == [t \in {"{\"a\":1}", "{ \"a\": 1 }", "{\"records\":[]}", "{\"error\":\"NOT_FOUND\"}"} |->
                 IF t = "{ \"a\": 1 }" THEN "{\"a\":1}" ELSE t]
JsonValid(t) == t \in DOMAIN JsonCanon

\* Math.ceil(x / 1000) for an integer x.
CeilSeconds(x) == IF x <= 0 THEN -((-x) \div 1000) ELSE (x + 999) \div 1000

\* Mutant: the call is sent without the Authorization header.
UpstreamCall_NoAuthorization(method, url, fetchBody, token) ==
    [method |-> method, url |-> url, body |-> fetchBody,
     hdrs |-> {<<"Content-Type", "application/json">>}]

\* One fetch(url, fetchOptions) call: the URL as passed (after the
\* authority https://api.airtable.com) and the options.
UpstreamCall(method, url, fetchBody, token) ==
    [method |-> method, url |-> url, body |-> fetchBody,
     hdrs |-> {<<"Authorization", "Bearer " \o token>>,
               <<"Content-Type", "application/json">>}]

\* History of the rate limiter: one checkRateLimit call.
\* `before` holds the key's record before the call, if it had one, and
\* `after` the record after it.
NoCheck == [ip |-> "", time |-> -1, before |-> <<>>, after |-> <<>>,
            allowed |-> FALSE, resetAt |-> -1]

\* admitLog[ip][a] is the number of requests of ip admitted a ms ago, for
\* the last RATE_WINDOW ms.
LogAdmit(log, ip) ==
    [i \in DOMAIN log \cup {ip} |->
        IF i = ip
        THEN [a \in 0 .. RATE_WINDOW |->
                 (IF ip \in DOMAIN log THEN log[ip][a] ELSE 0) + (IF a = 0 THEN 1 ELSE 0)]
        ELSE log[i]]

LogTick(log) ==
    [i \in DOMAIN log |-> [a \in 0 .. RATE_WINDOW |-> IF a = 0 THEN 0 ELSE log[i][a - 1]]]

\* The bookkeeping of one checkRateLimit call in invocation p.
Checked(rl, ip) ==
    /\ rateLimitStore' = rl.store
    /\ lastCheck' = [ip |-> ip, time |-> now,
                     before |-> IF ip \in DOMAIN rateLimitStore
                                THEN <<rateLimitStore[ip]>> ELSE <<>>,
                     after |-> <<rl.store[ip]>>,
                     allowed |-> rl.allowed, resetAt |-> rl.resetAt]
    /\ admitLog' = IF rl.allowed THEN LogAdmit(admitLog, ip) ELSE admitLog

NotChecked == UNCHANGED <<rateLimitStore, lastCheck, admitLog>>

\* The handler returns: the invocation is done with response r.
Return(p, r) ==
    /\ pc' = [pc EXCEPT ![p] = "done"]
    /\ resp' = [resp EXCEPT ![p] = r]

\* The handler suspends at an await.
Await(p, at) ==
    /\ pc' = [pc EXCEPT ![p] = at]
    /\ UNCHANGED resp

(***************************************************************************)
(* Inputs.                                                                 *)
(***************************************************************************)
Methods == {"GET", "POST", "PATCH", "PUT", "DELETE", "OPTIONS"}

Origins == {"", "https://prioai.ca", "http://localhost:3000", "https://evil.example"}

Bodies == {"", "{ \"a\": 1 }", "{bad"}

Tokens == {"", "secret"}

\* Authorization headers sent by the client.
ClientAuths == {"", "Bearer client"}

\* Raw request paths of variant A, as the client wrote them.
PathsA ==
    {"/api/airtable/appXXXXXXXXXXXXXX/Clients",
     "/api/airtable/appXXXXXXXXXXXXXX/Settings/rec1",
     "/api/airtable//appXXXXXXXXXXXXXX//Calls/",
     "/api/airtable/appXXXXXXXXXXXXXX/Clients/rec1/..",
     "/api/airtable/appXXXXXXXXXXXXXX/Clients/rec1/extra",
     "/api/airtable/appXXXXXXXXXXXXXX/Clients/../../appOther/Secret",
     "/api/airtable/appXXXXXXXXXXXXXX/Clients2",
     "/api/airtable/appOther/Clients",
     "/api/airtable/appXXXXXXXXXXXXXX",
     "/api/airtable/"}

\* Values of the `path` parameter of variant B.
PathsB ==
    {"applOjDjhH0RqLtBH/Team%20Members",
     "applOjDjhH0RqLtBH/Team Members/rec1",
     "applOjDjhH0RqLtBH/tblMptC862PyL7Znw",
     "applOjDjhH0RqLtBH/tblMptC862PyL7Znw/../../appOther/tblSecret",
     "applOjDjhH0RqLtBH/tblMptC862PyL7Znw/rec1?evil=1",
     "applOjDjhH0RqLtBH/Clients2",
     "applOjDjhH0RqLtBH/%",
     "applOjDjhH0RqLtBHEVIL/Team Members",
     "appOther/Team Members",
     "applOjDjhH0RqLtBH/",
     "applOjDjhH0RqLtBH"}

ExtraParams == {<<>>, <<<<"pageSize", "5">>, <<"evil", "1">>>>}

QueriesA == ExtraParams

QueriesB == ExtraParams \cup {<<<<"path", pb>>>> \o e : pb \in PathsB, e \in ExtraParams}

BodiesOf(m) == IF m \in BodyMethods THEN Bodies ELSE {""}

\* Requests of the sequential specification: one client, every other input;
\* only the body-carrying methods come with a body.
RequestsA ==
    {r \in
     {[method |-> m, origin |-> o, auth |-> a, cfIp |-> "203.0.113.7", xff |-> "", path |-> pa,
      query |-> q, body |-> b, token |-> t] :
        m \in Methods, o \in Origins, a \in ClientAuths, pa \in PathsA, q \in QueriesA,
        b \in Bodies, t \in Tokens} :
     r.body \in BodiesOf(r.method)}

RequestsB ==
    {r \in
     {[method |-> m, origin |-> o, auth |-> a, cfIp |-> "203.0.113.7", xff |-> "",
      path |-> "/api/airtable", query |-> q, body |-> b, token |-> t] :
        m \in Methods, o \in Origins, a \in ClientAuths, q \in QueriesB, b \in Bodies,
        t \in Tokens} :
     r.body \in BodiesOf(r.method)}


UpstreamOutcomes ==
    {[kind |-> "fail", status |-> 0, body |-> ""]}
    \cup {[kind |-> "http", status |-> 200, body |-> "{\"records\":[]}"],
          [kind |-> "http", status |-> 404, body |-> "{\"error\":\"NOT_FOUND\"}"],
          [kind |-> "http", status |-> 200, body |-> "<html>"],
          [kind |-> "http", status |-> 204, body |-> ""]}

\* Requests of the rate-limiter specifications: well-formed requests of
\* two clients.
RateClients == {[cfIp |-> "203.0.113.7", xff |-> ""],
                [cfIp |-> "", xff |-> " 198.51.100.2, 10.0.0.1"]}

RateRequests ==
    {[method |-> m, origin |-> "https://prioai.ca", auth |-> "", cfIp |-> c.cfIp, xff |-> c.xff,
      path |-> "/api/airtable/appXXXXXXXXXXXXXX/Clients",
      query |-> <<<<"path", "applOjDjhH0RqLtBH/Team%20Members">>>>,
      body |-> IF m = "POST" THEN "{ \"a\": 1 }" ELSE "", token |-> "secret"] :
        m \in {"GET", "POST"}, c \in RateClients}


(***************************************************************************)
(* The handlers' string computations, evaluated once per distinct input.   *)
(***************************************************************************)
AllRequests == RequestsA \cup RequestsB \cup RateRequests

\* part_000 line 111.
clientIPOfA == [h \in {<<r.cfIp, r.xff>> : r \in AllRequests} |->
                   getRateLimitKey([cfIp |-> h[1], xff |-> h[2]])]

\* airtable.js lines 103-105.
clientIPOfB == [h \in {<<r.cfIp, r.xff>> : r \in AllRequests} |->
                   clientIPB([cfIp |-> h[1], xff |-> h[2]])]

\* part_000 line 88 and lines 133-145: url.pathname, the match of
\* /^\/api\/airtable\/(.+)$/ and validatePath(pathMatch[1]).
ApiPrefix == "/api/airtable/"

parsePathA(raw) ==
    LET pathname == UrlPathname(raw)
        pathMatch == StartsWith(pathname, ApiPrefix) /\ Len(pathname) > Len(ApiPrefix)
    IN  [pathMatch  |-> pathMatch,
         validation |-> IF pathMatch
                        THEN validatePathA(SubSeq(pathname, Len(ApiPrefix) + 1, Len(pathname)))
                        ELSE NoValidation]

pathOfA == [raw \in {r.path : r \in AllRequests} |-> parsePathA(raw)]

\* part_000 lines 158-166: the URL handed to fetch.
airtableUrlA(validation, query) ==
    "/v0/" \o validation.baseId \o "/" \o encodeURIComponent(validation.tableName)
    \o (IF validation.recordId # "" THEN "/" \o validation.recordId ELSE "")
    \o UrlSearch(query)

urlOfA == [x \in {<<r.path, r.query>> : r \in AllRequests} |->
              IF pathOfA[x[1]].validation.valid
              THEN airtableUrlA(pathOfA[x[1]].validation, x[2]) ELSE ""]

(***************************************************************************)
(* Variant A, src/unnamed/part_000: onRequest, cut at its awaits.          *)
(***************************************************************************)
RateHeadersA(remaining) ==
    {<<"X-RateLimit-Limit", ToString(RATE_LIMIT)>>,
     <<"X-RateLimit-Remaining", ToString(remaining)>>}

\* Lines 86-177 and, without a body to read, the fetch call of line 197.
StartA(p, r) ==
    /\ variant = "A"
    /\ pc[p] = "idle"
    /\ req' = [req EXCEPT ![p] = r]
    /\ UNCHANGED <<variant, now>>
    /\ LET cors == getCorsHeadersA(r)
           errHdrs == Spread(JsonType, cors)
           entry == NoLocal
           clientIP == clientIPOfA[<<r.cfIp, r.xff>>]
           rateLimit == checkRateLimitA(rateLimitStore, clientIP, now)
           pathMatch == pathOfA[r.path].pathMatch
           validation == pathOfA[r.path].validation
           airtableUrl == urlOfA[<<r.path, r.query>>]
           admitted == [entry EXCEPT !.checked = TRUE,
                                     !.rateLimit = [allowed   |-> rateLimit.allowed,
                                                    remaining |-> rateLimit.remaining,
                                                    resetAt   |-> rateLimit.resetAt]]
       IN  IF IsPreflight(r)
           THEN /\ Return(p, PreflightResponse(cors))
                /\ local' = [local EXCEPT ![p] = entry]
                /\ NotChecked
                /\ UNCHANGED calls
           ELSE IF MissingToken(r)
           THEN /\ Return(p, ErrorResponse(500, "Server configuration error", errHdrs))
                /\ local' = [local EXCEPT ![p] = entry]
                /\ NotChecked
                /\ UNCHANGED calls
           ELSE /\ Checked(rateLimit, clientIP)
                /\ IF ~rateLimit.allowed
                   THEN /\ Return(p, [ErrorResponse(429, "Rate limit exceeded",
                                        Spread(JsonType
                                               \cup {<<"X-RateLimit-Limit", ToString(RATE_LIMIT)>>,
                                                     <<"X-RateLimit-Remaining", "0">>,
                                                     <<"X-RateLimit-Reset", ToString(rateLimit.resetAt)>>,
                                                     <<"Retry-After",
                                                       ToString(CeilSeconds(rateLimit.resetAt - now))>>},
                                               cors))
                                      EXCEPT !.resetAt = rateLimit.resetAt])
                        /\ local' = [local EXCEPT ![p] = admitted]
                        /\ UNCHANGED calls
                   ELSE IF ~pathMatch
                   THEN /\ Return(p, ErrorResponse(400, "Invalid endpoint", errHdrs))
                        /\ local' = [local EXCEPT ![p] = admitted]
                        /\ UNCHANGED calls
                   ELSE IF ~validation.valid
                   THEN /\ Return(p, ErrorResponse(403, validation.error, errHdrs))
                        /\ local' = [local EXCEPT ![p] = [admitted EXCEPT !.validation = validation]]
                        /\ UNCHANGED calls
                   ELSE /\ local' = [local EXCEPT ![p] =
                                        [admitted EXCEPT !.validation = validation,
                                                         !.url = airtableUrl]]
                        /\ IF readsBodyA(r)
                           THEN /\ Await(p, "body")
                                /\ UNCHANGED calls
                           ELSE /\ Await(p, "fetch")
                                /\ calls' = [calls EXCEPT ![p] =
                                                Append(@, UpstreamCall(r.method, airtableUrl, "", r.token))]

\* Lines 180-197: `await request.json()` settles; then the fetch call.
BodyA(p) ==
    /\ variant = "A"
    /\ pc[p] = "body"
    /\ UNCHANGED <<variant, now, req, rateLimitStore, lastCheck, admitLog>>
    /\ IF JsonValid(req[p].body)
       THEN /\ local' = [local EXCEPT ![p].fetchBody = JsonCanon[req[p].body]]
            /\ calls' = [calls EXCEPT ![p] =
                            Append(@, UpstreamCall(req[p].method, local[p].url,
                                                   JsonCanon[req[p].body], req[p].token))]
            /\ Await(p, "fetch")
       ELSE /\ Return(p, ErrorResponse(400, "Invalid JSON body",
                                       Spread(JsonType, getCorsHeadersA(req[p]))))
            /\ UNCHANGED <<local, calls>>

\* Mutant: a rejected fetch promise is taken for a response.
TransportFailed_Never(o) == FALSE

\* The promise of fetch rejects: control goes to the catch block.
TransportFailed(o) == o.kind = "fail"

\* Lines 197-198 and 209-219: `await fetch(...)` settles with outcome o.
FetchA(p, o) ==
    /\ variant = "A"
    /\ pc[p] = "fetch"
    /\ UNCHANGED <<variant, now, req, rateLimitStore, lastCheck, admitLog, calls>>
    /\ IF TransportFailed(o)
       THEN /\ Return(p, [ErrorResponse(502, "Failed to fetch from Airtable",
                                        Spread(JsonType, getCorsHeadersA(req[p])))
                          EXCEPT !.details = "fetch failed"])
            /\ UNCHANGED local
       ELSE /\ local' = [local EXCEPT ![p].upstream = [status |-> o.status, body |-> o.body]]
            /\ Await(p, "respbody")

\* Lines 198-219: `await airtableResponse.json()` settles; the relay.
RespBodyA(p) ==
    /\ variant = "A"
    /\ pc[p] = "respbody"
    /\ UNCHANGED <<variant, now, req, rateLimitStore, lastCheck, admitLog, calls, local>>
    /\ LET up == local[p].upstream
           failed(details) ==
               [ErrorResponse(502, "Failed to fetch from Airtable",
                              Spread(JsonType, getCorsHeadersA(req[p])))
                EXCEPT !.details = details]
       IN  IF ~JsonValid(up.body)
           THEN Return(p, failed("Unexpected token"))
           ELSE IF ResponseThrows(up.status, TRUE)
           THEN Return(p, failed("Invalid response status code"))
           ELSE Return(p, RelayResponse(up.status, JsonCanon[up.body],
                                        Spread(JsonType \cup RateHeadersA(local[p].rateLimit.remaining),
                                               getCorsHeadersA(req[p]))))

(***************************************************************************)
(* Variant B, src/functions/api/airtable.js: onRequest, cut at its awaits. *)
(***************************************************************************)
allowedParams == {"pageSize", "offset", "sort[0][field]", "sort[0][direction]",
                  "filterByFormula", "view"}

\* The pairs of a query text "k=v&k=v" (application/x-www-form-urlencoded
\* parsing on the modelled alphabet, which has no escapes in query texts).
RECURSIVE PairsOf(_)
PairsOf(parts) ==
    IF parts = <<>> THEN <<>>
    ELSE LET kv == Head(parts)
             i == IndexFrom(kv, "=", 1)
         IN  (IF kv = "" THEN <<>>
              ELSE IF i = 0 THEN <<<<kv, "">>>>
              ELSE <<<<SubSeq(kv, 1, i - 1), SubSeq(kv, i + 1, Len(kv))>>>>)
             \o PairsOf(Tail(parts))

ParseQuery(text) == IF text = "" THEN <<>> ELSE PairsOf(Split(text, "&"))

\* Lines 137-143: the loop copying the allowed inbound parameters.
RECURSIVE ForwardParams(_, _)
ForwardParams(inbound, out) ==
    IF inbound = <<>> THEN out
    ELSE LET key == Head(inbound)[1]
             value == Head(inbound)[2]
         IN  IF key # "path" /\ (key \in allowedParams \/ StartsWith(key, "sort["))
             THEN ForwardParams(Tail(inbound), SearchSet(out, key, value))
             ELSE ForwardParams(Tail(inbound), out)

\* Lines 135-143 and airtableUrl.toString(): the URL handed to fetch.
airtableUrlB(path, inbound) ==
    LET raw == "/v0/" \o path
    IN  UrlPathname(raw) \o UrlSearch(ForwardParams(inbound, ParseQuery(QueryOf(raw))))

\* Lines 124-125: validatePath(url.searchParams.get('path')), and the URL.
pathOfB == [q \in {r.query : r \in AllRequests} |-> validatePathB(SearchGet(q, "path"))]

urlOfB == [q \in {r.query : r \in AllRequests} |->
              IF pathOfB[q].valid THEN airtableUrlB(SearchGet(q, "path"), q) ELSE ""]

\* Mutant: only POST requests have their origin checked.
OriginRejected_PostOnly(r) == r.method = "POST" /\ r.origin \notin ALLOWED_ORIGINS

\* Line 95: the origin check of non-GET requests.
OriginRejected(r) == r.method # "GET" /\ r.origin \notin ALLOWED_ORIGINS

\* Lines 83-152 and, without a body to read, the fetch call of line 167.
StartB(p, r) ==
    /\ variant = "B"
    /\ pc[p] = "idle"
    /\ req' = [req EXCEPT ![p] = r]
    /\ UNCHANGED <<variant, now>>
    /\ LET corsHeaders == getCorsHeadersB(r.origin)
           errHdrs == Spread(corsHeaders, JsonType)
           entry == NoLocal
           clientIP == clientIPOfB[<<r.cfIp, r.xff>>]
           rateLimit == checkRateLimitB(rateLimitStore, clientIP, now)
           validation == pathOfB[r.query]
           airtableUrl == urlOfB[r.query]
           admitted == [entry EXCEPT !.checked = TRUE,
                                     !.rateLimit = [allowed   |-> rateLimit.allowed,
                                                    remaining |-> rateLimit.remaining,
                                                    resetAt   |-> rateLimit.resetAt]]
       IN  IF IsPreflight(r)
           THEN /\ Return(p, PreflightResponse(corsHeaders))
                /\ local' = [local EXCEPT ![p] = entry]
                /\ NotChecked
                /\ UNCHANGED calls
           ELSE IF OriginRejected(r)
           THEN /\ Return(p, ErrorResponse(403, "Origin not allowed", errHdrs))
                /\ local' = [local EXCEPT ![p] = entry]
                /\ NotChecked
                /\ UNCHANGED calls
           ELSE /\ Checked(rateLimit, clientIP)
                /\ IF ~rateLimit.allowed
                   THEN /\ Return(p, ErrorResponse(429,
                                        "Rate limit exceeded. Max 1000 requests per minute.",
                                        Spread(errHdrs, {<<"Retry-After", "60">>})))
                        /\ local' = [local EXCEPT ![p] = admitted]
                        /\ UNCHANGED calls
                   ELSE IF MissingToken(r)
                   THEN /\ Return(p, ErrorResponse(500, "Server configuration error", errHdrs))
                        /\ local' = [local EXCEPT ![p] = admitted]
                        /\ UNCHANGED calls
                   ELSE IF validation.threw
                   THEN /\ Return(p, Fault(validation.error))
                        /\ local' = [local EXCEPT ![p] = admitted]
                        /\ UNCHANGED calls
                   ELSE IF ~validation.valid
                   THEN /\ Return(p, ErrorResponse(400, validation.error, errHdrs))
                        /\ local' = [local EXCEPT ![p] = [admitted EXCEPT !.validation = validation]]
                        /\ UNCHANGED calls
                   ELSE /\ local' = [local EXCEPT ![p] =
                                        [admitted EXCEPT !.validation = validation,
                                                         !.url = airtableUrl]]
                        /\ IF readsBodyB(r)
                           THEN /\ Await(p, "body")
                                /\ UNCHANGED calls
                           ELSE /\ Await(p, "fetch")
                                /\ calls' = [calls EXCEPT ![p] =
                                                Append(@, UpstreamCall(r.method, airtableUrl, "", r.token))]

\* Lines 155-167: `await request.text()` settles; then the fetch call.
\* An empty text leaves fetchOptions.body unset ("" here).
BodyB(p) ==
    /\ variant = "B"
    /\ pc[p] = "body"
    /\ UNCHANGED <<variant, now, req, rateLimitStore, lastCheck, admitLog>>
    /\ local' = [local EXCEPT ![p].fetchBody = req[p].body]
    /\ calls' = [calls EXCEPT ![p] =
                    Append(@, UpstreamCall(req[p].method, local[p].url, req[p].body, req[p].token))]
    /\ Await(p, "fetch")

\* Lines 167-168 and 177-181: `await fetch(...)` settles with outcome o.
FetchB(p, o) ==
    /\ variant = "B"
    /\ pc[p] = "fetch"
    /\ UNCHANGED <<variant, now, req, rateLimitStore, lastCheck, admitLog, calls>>
    /\ IF TransportFailed(o)
       THEN /\ Return(p, ErrorResponse(502, "Failed to fetch from Airtable",
                                       Spread(getCorsHeadersB(req[p].origin), JsonType)))
            /\ UNCHANGED local
       ELSE /\ local' = [local EXCEPT ![p].upstream = [status |-> o.status, body |-> o.body]]
            /\ Await(p, "respbody")

\* Lines 168-181: `await response.text()` settles; the relay.
RespBodyB(p) ==
    /\ variant = "B"
    /\ pc[p] = "respbody"
    /\ UNCHANGED <<variant, now, req, rateLimitStore, lastCheck, admitLog, calls, local>>
    /\ LET up == local[p].upstream
           hdrs == Spread(getCorsHeadersB(req[p].origin), JsonType)
       IN  IF ResponseThrows(up.status, TRUE)
           THEN Return(p, ErrorResponse(502, "Failed to fetch from Airtable", hdrs))
           ELSE Return(p, RelayResponse(up.status, up.body, hdrs))

(***************************************************************************)
(* The environment: the platform invokes the deployed handler with a       *)
(* request, the clock advances, and a finished invocation is forgotten.    *)
(***************************************************************************)
InvokeA(p, requests) ==
    /\ variant = "A"
    /\ pc[p] = "idle"
    /\ \E r \in requests : StartA(p, r)

InvokeB(p, requests) ==
    /\ variant = "B"
    /\ pc[p] = "idle"
    /\ \E r \in requests : StartB(p, r)

Finish(p) ==
    /\ pc[p] = "done"
    /\ pc' = [pc EXCEPT ![p] = "idle"]
    /\ req' = [req EXCEPT ![p] = NoReq]
    /\ local' = [local EXCEPT ![p] = NoLocal]
    /\ resp' = [resp EXCEPT ![p] = NoResp]
    /\ calls' = [calls EXCEPT ![p] = <<>>]
    /\ UNCHANGED <<variant, now, rateLimitStore, lastCheck, admitLog>>

Tick ==
    /\ now < MaxTime
    /\ now' = now + 1
    /\ admitLog' = LogTick(admitLog)
    /\ UNCHANGED <<variant, rateLimitStore, pc, req, local, resp, calls, lastCheck>>

Init ==
    /\ variant \in {"A", "B"}
    /\ now = 0
    /\ rateLimitStore = << >>
    /\ pc = [p \in Procs |-> "idle"]
    /\ req = [p \in Procs |-> NoReq]
    /\ local = [p \in Procs |-> NoLocal]
    /\ resp = [p \in Procs |-> NoResp]
    /\ calls = [p \in Procs |-> <<>>]
    /\ lastCheck = NoCheck
    /\ admitLog = << >>

(***************************************************************************)
(* Spec: one invocation at a time, every request, the clock standing.      *)
(***************************************************************************)
Next ==
    \/ InvokeA(1, RequestsA)
    \/ BodyA(1)
    \/ \E o \in UpstreamOutcomes : FetchA(1, o)
    \/ RespBodyA(1)
    \/ InvokeB(1, RequestsB)
    \/ BodyB(1)
    \/ \E o \in UpstreamOutcomes : FetchB(1, o)
    \/ RespBodyB(1)
    \/ Finish(1)

Spec == Init /\ [][Next]_vars

(***************************************************************************)
(* SpecRate: successive invocations of well-formed requests from several   *)
(* clients, with the clock advancing.                                      *)
(***************************************************************************)
RateOutcomes == {o \in UpstreamOutcomes : o.kind = "fail" \/ (o.status = 200 /\ JsonValid(o.body))}

NextRate ==
    \/ InvokeA(1, RateRequests)
    \/ BodyA(1)
    \/ \E o \in RateOutcomes : FetchA(1, o)
    \/ RespBodyA(1)
    \/ InvokeB(1, RateRequests)
    \/ BodyB(1)
    \/ \E o \in RateOutcomes : FetchB(1, o)
    \/ RespBodyB(1)
    \/ Finish(1)
    \/ Tick

SpecRate == Init /\ [][NextRate]_vars

(***************************************************************************)
(* SpecConc: concurrent invocations for one client, the clock advancing.   *)
(* The requests carry a body, so that an invocation is suspended at each   *)
(* of the handler's awaits (body, fetch, response body).                   *)
(***************************************************************************)
ConcRequests == {r \in RateRequests : r.cfIp # "" /\ r.method = "POST"}

ConcOutcomes == {o \in RateOutcomes : o.kind # "fail"}

NextConc ==
    \/ \E p \in Procs : InvokeA(p, ConcRequests)
    \/ \E p \in Procs : BodyA(p)
    \/ \E p \in Procs, o \in ConcOutcomes : FetchA(p, o)
    \/ \E p \in Procs : RespBodyA(p)
    \/ \E p \in Procs : InvokeB(p, ConcRequests)
    \/ \E p \in Procs : BodyB(p)
    \/ \E p \in Procs, o \in ConcOutcomes : FetchB(p, o)
    \/ \E p \in Procs : RespBodyB(p)
    \/ \E p \in Procs : Finish(p)
    \/ Tick

SpecConc == Init /\ [][NextConc]_vars

(***************************************************************************)
(* SpecLive: SpecRate with the progress the runtime guarantees. A body     *)
(* that is being read is eventually delivered and a finished invocation    *)
(* eventually ends. The promise of fetch settles only when the upstream    *)
(* answers or the connection fails: fetchOptions carries no signal and the *)
(* handler sets no timer, so nothing in the code makes it settle.          *)
(***************************************************************************)
Progress ==
    /\ WF_vars(BodyA(1) \/ BodyB(1))
    /\ WF_vars(RespBodyA(1) \/ RespBodyB(1))
    /\ WF_vars(Finish(1))

SpecLive == Init /\ [][NextRate]_vars /\ Progress

(***************************************************************************)
(* Properties.                                                             *)
(***************************************************************************)
StoreKey(r) == IF variant = "A" THEN clientIPOfA[<<r.cfIp, r.xff>>] ELSE clientIPOfB[<<r.cfIp, r.xff>>]

WindowStart(rec) == IF variant = "A" THEN rec.timestamp ELSE rec.windowStart

\* The client's window is full: it has a live record with count = RATE_LIMIT.
Throttled(r) ==
    /\ StoreKey(r) \in DOMAIN rateLimitStore
    /\ rateLimitStore[StoreKey(r)].count = RATE_LIMIT
    /\ now - WindowStart(rateLimitStore[StoreKey(r)]) <= RATE_WINDOW

\* What an upstream call addresses: fetch parses the URL it is given, and the
\* upstream reads /v0/<base>/<table>/... with each segment percent-decoded.
TargetOf(call) ==
    LET segs == UrlPathSegments(call.url)
    IN  [api   |-> IF Len(segs) >= 1 THEN segs[1] ELSE "",
         base  |-> IF Len(segs) >= 2 THEN segs[2] ELSE "",
         table |-> IF Len(segs) >= 3 THEN decodeURIComponent(segs[3]) ELSE ""]

AllowedTarget(t) ==
    /\ t.api = "v0"
    /\ IF variant = "A"
       THEN t.base \in ALLOWED_PATHS.bases /\ t.table \in ALLOWED_PATHS.tables
       ELSE t.base = ALLOWED_BASE /\ t.table \in ALLOWED_TABLES

\* C1: every upstream call the handler issues addresses, once its URL is
\* parsed and its "." and ".." segments resolved, an allowed base and an
\* allowed table.
C1_UpstreamWithinAllowList ==
    \A p \in Procs : \A i \in 1 .. Len(calls[p]) : AllowedTarget(TargetOf(calls[p][i]))

\* C7: a preflight request returns 204 without a body, whatever the state
\* of the rate-limit map, the path, the origin and the token; the map is
\* not touched, checkRateLimit and validatePath are not called, and no
\* upstream call is issued.
C7_PreflightBypassesEverything ==
    [][\A p \in Procs :
          (pc[p] = "idle" /\ pc'[p] # "idle" /\ req'[p].method = "OPTIONS")
          => /\ pc'[p] = "done"
             /\ resp'[p].kind = "response"
             /\ resp'[p].status = 204
             /\ ~resp'[p].hasBody
             /\ rateLimitStore' = rateLimitStore
             /\ lastCheck' = lastCheck
             /\ admitLog' = admitLog
             /\ ~local'[p].checked
             /\ local'[p].validation = NoValidation
             /\ calls'[p] = <<>>]_vars

\* A preflight was answered while its client was throttled, the token was
\* missing and the path was not an allowed one.
C7_Witness ==
    \E p \in Procs :
        /\ pc[p] = "done"
        /\ req[p].method = "OPTIONS"
        /\ resp[p].status = 204
        /\ Throttled(req[p])
        /\ req[p].token = ""
        /\ req[p].origin \notin ALLOWED_ORIGINS
        /\ IF variant = "A" THEN ~pathOfA[req[p].path].validation.valid
                            ELSE ~pathOfB[req[p].query].valid

\* What checkRateLimit answers for request r on the store and the clock.
WouldAdmit(r, store, t) ==
    IF variant = "A" THEN checkRateLimitA(store, StoreKey(r), t).allowed
                     ELSE checkRateLimitB(store, StoreKey(r), t).allowed

\* The status of the path check of request r, 0 when the path is valid.
PathStatus(r) ==
    IF variant = "A"
    THEN (IF ~pathOfA[r.path].pathMatch THEN 400
          ELSE IF ~pathOfA[r.path].validation.valid THEN 403 ELSE 0)
    ELSE (IF ~pathOfB[r.query].valid THEN 400 ELSE 0)

\* The earliest failing check of r before any await, in the order token,
\* rate limit, origin (variant B), path; 0 when all four pass.
EarliestFailure(r, store, t) ==
    IF r.token = "" THEN 500
    ELSE IF ~WouldAdmit(r, store, t) THEN 429
    ELSE IF variant = "B" /\ r.method # "GET" /\ r.origin \notin ALLOWED_ORIGINS THEN 403
    ELSE PathStatus(r)

\* C5: a request that is not a preflight is answered by its earliest failing
\* check in the order token (500), rate limit (429), origin of a non-GET in
\* variant B (403), path (400/403), body (400); the upstream is called only
\* when all pass.
C5_FixedCheckOrder ==
    [][\A p \in Procs :
          /\ (pc[p] = "idle" /\ pc'[p] # "idle" /\ req'[p].method # "OPTIONS")
             => LET e == EarliestFailure(req'[p], rateLimitStore, now)
                IN  IF e # 0
                    THEN pc'[p] = "done" /\ resp'[p].kind = "response" /\ resp'[p].status = e
                    ELSE pc'[p] # "done"
          /\ (pc[p] = "body" /\ pc'[p] # "body" /\ ~JsonValid(req[p].body))
             => pc'[p] = "done" /\ resp'[p].status = 400 /\ calls'[p] = <<>>]_vars

\* C6: a request that is not a preflight and arrives without the secret
\* token is answered 500 at once: the rate-limit map is unchanged and no
\* upstream call is made.
C6_MissingTokenFailsFirst ==
    [][\A p \in Procs :
          (pc[p] = "idle" /\ pc'[p] # "idle" /\ req'[p].method # "OPTIONS" /\ req'[p].token = "")
          => /\ pc'[p] = "done"
             /\ resp'[p].kind = "response"
             /\ resp'[p].status = 500
             /\ rateLimitStore' = rateLimitStore
             /\ calls'[p] = <<>>]_vars

\* C9: in variant B a request that is neither GET nor OPTIONS and whose
\* Origin is not allow-listed is answered 403 "Origin not allowed" whatever
\* its path, and issues no upstream call; a GET is never refused for its
\* origin.
C9_NonGetOriginChecked ==
    \A p \in Procs :
        (variant = "B" /\ pc[p] # "idle")
        => /\ (req[p].method \notin {"GET", "OPTIONS"} /\ req[p].origin \notin ALLOWED_ORIGINS)
              => /\ pc[p] = "done"
                 /\ resp[p].status = 403
                 /\ resp[p].error = "Origin not allowed"
                 /\ calls[p] = <<>>
           /\ req[p].method = "GET" => resp[p].error # "Origin not allowed"
           /\ (req[p].method = "GET" /\ req[p].token # "" /\ local[p].rateLimit.allowed
               /\ pathOfB[req[p].query].valid)
              => calls[p] # <<>>

\* A DELETE to a valid path with the token set and the client admitted was
\* refused for its origin, and a GET from the same origin reached the upstream.
C9_Witness ==
    \E p \in Procs :
        /\ variant = "B"
        /\ pc[p] = "done"
        /\ req[p].origin = "https://evil.example"
        /\ req[p].token # ""
        /\ pathOfB[req[p].query].valid
        /\ ~Throttled(req[p])
        /\ req[p].method = "DELETE"
        /\ resp[p].status = 403

\* Invocation p got past the token, rate-limit and origin checks.
PassedGate(p) ==
    /\ pc[p] # "idle"
    /\ req[p].method # "OPTIONS"
    /\ req[p].token # ""
    /\ local[p].checked
    /\ local[p].rateLimit.allowed

\* The path validation requirements as stated, per distinct input: the
\* error a path must be refused with, "" for a path that must be accepted.
RequiredErrorA(airtablePath) ==
    LET parts == FilterNonEmpty(Split(airtablePath, "/"))
    IN  IF Len(parts) \notin {2, 3} THEN "Invalid path format"
        ELSE IF parts[1] \notin ALLOWED_PATHS.bases THEN "Base not allowed"
        ELSE IF parts[2] \notin ALLOWED_PATHS.tables THEN "Table not allowed"
        ELSE ""

RequiredErrorB(path) ==
    LET segs == Split(path, "/")
    IN  IF path = "" THEN "Missing path parameter"
        ELSE IF segs[1] # ALLOWED_BASE THEN "Invalid base ID"
        ELSE IF Len(segs) < 2 \/ segs[2] = "" THEN "Missing table name"
        ELSE IF segs[2] \notin ALLOWED_TABLES /\ decodeURIComponent(segs[2]) \notin ALLOWED_TABLES
        THEN "Table not allowed"
        ELSE ""

requiredOfA == [raw \in DOMAIN pathOfA |->
                   IF pathOfA[raw].pathMatch
                   THEN RequiredErrorA(SubSeq(UrlPathname(raw), Len(ApiPrefix) + 1,
                                              Len(UrlPathname(raw))))
                   ELSE ""]

requiredOfB == [q \in DOMAIN pathOfB |-> RequiredErrorB(SearchGet(q, "path"))]

\* C8: validatePath accepts a path exactly when its base and its table are
\* on the allow-list (a table in encoded or decoded form), in variant A with
\* two or three non-empty segments; a refused path is reported with the
\* reason of its first failing condition.
C8_ExactMatchWithReason ==
    \A p \in Procs :
        (PassedGate(p) /\ (variant = "A" => pathOfA[req[p].path].pathMatch))
        => LET v == IF variant = "A" THEN pathOfA[req[p].path].validation
                                     ELSE pathOfB[req[p].query]
               e == IF variant = "A" THEN requiredOfA[req[p].path] ELSE requiredOfB[req[p].query]
           IN  /\ ~v.threw
               /\ v.valid <=> e = ""
               /\ ~v.valid => v.error = e

\* The body of invocation p is not JSON.
MalformedBody(p) == req[p].method \in {"POST", "PATCH", "PUT"} /\ ~JsonValid(req[p].body)

\* C10 as stated: in both variants a POST, PATCH or PUT with a malformed
\* JSON body to an otherwise-valid path is answered 400 and no upstream
\* call is attempted.
C10_MalformedBodyRejected ==
    \A p \in Procs :
        (PassedGate(p) /\ PathStatus(req[p]) = 0 /\ MalformedBody(p) /\ req[p].body # "")
        => /\ calls[p] = <<>>
           /\ pc[p] = "done" => resp[p].status = 400

\* C10 as amended: variant A answers a body that does not parse (a
\* malformed or an empty one) 400 "Invalid JSON body" without an upstream
\* call; variant B does not validate the body: it issues the upstream call
\* with the body text as received.
C10_MalformedBodyPerVariant ==
    \A p \in Procs :
        (PassedGate(p) /\ PathStatus(req[p]) = 0 /\ MalformedBody(p))
        => IF variant = "A"
           THEN /\ pc[p] \in {"body", "done"}
                /\ calls[p] = <<>>
                /\ pc[p] = "done" => (resp[p].status = 400 /\ resp[p].error = "Invalid JSON body")
           ELSE pc[p] # "body"
                => /\ Len(calls[p]) = 1
                   /\ calls[p][1].body = req[p].body
                   /\ pc[p] = "done" => resp[p].error # "Invalid JSON body"

\* Variant A refused a PUT with a malformed body to a valid path.
C10_Witness ==
    \E p \in Procs :
        /\ variant = "A"
        /\ PassedGate(p)
        /\ PathStatus(req[p]) = 0
        /\ req[p].method = "PUT"
        /\ req[p].body = "{bad"
        /\ pc[p] = "done"
        /\ resp[p].status = 400
        /\ calls[p] = <<>>

\* C2: a request that is at most the RATE_LIMIT-th of its client in the
\* window is admitted; the next one in the same window is rejected with 429
\* and, where the variant reports one, a resetAt later than the time of the
\* rejection.
C2_AdmitUpToLimitThenReject ==
    /\ lastCheck.time >= 0
       => LET sameWindow == /\ lastCheck.before # <<>>
                            /\ lastCheck.time - WindowStart(lastCheck.before[1]) <= RATE_WINDOW
              n == IF sameWindow THEN lastCheck.before[1].count ELSE 0
          IN  /\ n < RATE_LIMIT => lastCheck.allowed
              /\ n >= RATE_LIMIT
                 => /\ ~lastCheck.allowed
                    /\ variant = "A" => lastCheck.resetAt > lastCheck.time
    /\ \A p \in Procs :
          (pc[p] = "done" /\ local[p].checked /\ ~local[p].rateLimit.allowed)
          => resp[p].status = 429

\* The requests of ip admitted in the last `age` ms.
RECURSIVE AdmittedWithin(_, _)
AdmittedWithin(ip, age) ==
    IF age < 0 \/ ip \notin DOMAIN admitLog THEN 0
    ELSE admitLog[ip][age] + AdmittedWithin(ip, age - 1)

\* C3: with invocations interleaved at their awaits, no increment is lost
\* (the count of a live record is the number of requests admitted since its
\* window started) and no client has more than RATE_LIMIT requests admitted
\* in one window.
C3_NoLostIncrement ==
    \A ip \in DOMAIN rateLimitStore :
        LET age == now - WindowStart(rateLimitStore[ip])
        IN  age <= RATE_WINDOW
            => /\ rateLimitStore[ip].count = AdmittedWithin(ip, age)
               /\ AdmittedWithin(ip, age) <= RATE_LIMIT

\* Suspended at an await.
Suspended(p) == pc[p] \in {"body", "fetch", "respbody"}

\* While one invocation of a client is suspended at an await, another one
\* of the same client is rejected because the window is full.
C3_Witness ==
    \E p, q \in Procs :
        /\ p # q
        /\ Suspended(p)
        /\ local[p].rateLimit.allowed
        /\ pc[q] = "done"
        /\ resp[q].status = 429
        /\ StoreKey(req[p]) = StoreKey(req[q])
        /\ rateLimitStore[StoreKey(req[p])].count = RATE_LIMIT

\* C4: a call that finds the client's record more than RATE_WINDOW old is
\* admitted whatever the record's count and replaces the record by
\* {windowStart: now, count: 1}; a record exactly RATE_WINDOW old is not
\* reset.
C4_ExpiredWindowResets ==
    (lastCheck.time >= 0 /\ lastCheck.before # <<>>)
    => LET b == lastCheck.before[1]
           a == lastCheck.after[1]
           age == lastCheck.time - WindowStart(b)
       IN  /\ age > RATE_WINDOW
              => /\ lastCheck.allowed
                 /\ WindowStart(a) = lastCheck.time
                 /\ a.count = 1
           /\ age = RATE_WINDOW
              => /\ WindowStart(a) = WindowStart(b)
                 /\ b.count >= RATE_LIMIT => (~lastCheck.allowed /\ a = b)
                 /\ b.count < RATE_LIMIT => (lastCheck.allowed /\ a.count = b.count + 1)

\* A client whose window was full is admitted 1 ms after the window's end.
C4_Witness ==
    /\ lastCheck.time >= 0
    /\ lastCheck.before # <<>>
    /\ lastCheck.before[1].count = RATE_LIMIT
    /\ lastCheck.time - WindowStart(lastCheck.before[1]) = RATE_WINDOW + 1
    /\ lastCheck.allowed
    /\ lastCheck.after[1].count = 1

\* C11: when the fetch of an admitted, valid request fails in transport
\* (the invocation leaves the fetch await without an upstream response),
\* the handler returns 502 {error: 'Failed to fetch from Airtable'} after
\* exactly one upstream call, and the client's record, incremented when the
\* request was admitted, still counts the request.
C11_TransportFailureOnce ==
    [][\A p \in Procs :
          (pc[p] = "fetch" /\ pc'[p] # "fetch" /\ local'[p].upstream.status = 0)
          => /\ pc'[p] = "done"
             /\ resp'[p].kind = "response"
             /\ resp'[p].status = 502
             /\ resp'[p].error = "Failed to fetch from Airtable"
             /\ Len(calls'[p]) = 1
             /\ rateLimitStore' = rateLimitStore
             /\ lastCheck.ip = StoreKey(req[p])
             /\ lastCheck.allowed
             /\ rateLimitStore[StoreKey(req[p])] = lastCheck.after[1]
             /\ lastCheck.after[1].count =
                   (IF lastCheck.before = <<>> THEN 1 ELSE lastCheck.before[1].count + 1)]_vars

\* A POST was admitted as the second request of its client, its fetch
\* failed, and it was answered 502 after one upstream call.
C11_Witness ==
    \E p \in Procs :
        /\ pc[p] = "done"
        /\ req[p].method = "POST"
        /\ resp[p].status = 502
        /\ local[p].upstream.status = 0
        /\ Len(calls[p]) = 1
        /\ rateLimitStore[StoreKey(req[p])].count = 2

\* The parameters a call carries, as the upstream reads them off its URL.
SentParams(call) ==
    LET q == ParseQuery(QueryOf(call.url))
    IN  {q[i] : i \in 1 .. Len(q)}

\* The inbound parameters that may be forwarded.
ForwardableParams(query) ==
    {query[i] : i \in {j \in 1 .. Len(query) :
                          /\ query[j][1] # "path"
                          /\ \/ query[j][1] \in {"pageSize", "offset", "filterByFormula", "view",
                                                 "sort[0][field]", "sort[0][direction]"}
                             \/ StartsWith(query[j][1], "sort[")}}

\* C12: in variant B the parameters of an upstream call are exactly the
\* inbound parameters whose name is allow-listed or starts with "sort[";
\* `path` and every other name are dropped, and a dropped parameter never
\* turns a request with a valid path into an error.
C12_OnlyAllowedParamsForwarded ==
    \A p \in Procs :
        variant = "B"
        => /\ \A i \in 1 .. Len(calls[p]) :
                 SentParams(calls[p][i]) = ForwardableParams(req[p].query)
           /\ (PassedGate(p) /\ pathOfB[req[p].query].valid /\ pc[p] \in {"fetch", "respbody"})
              => Len(calls[p]) = 1

\* The names of the headers of a response.
HeaderNames(hdrs) == {h[1] : h \in hdrs}

\* C13: every response to a request that is not a preflight carries
\* X-RateLimit-Limit and X-RateLimit-Remaining next to the CORS headers,
\* and every 429 also X-RateLimit-Reset and Retry-After.
C13_RateHeadersOnEveryResponse ==
    \A p \in Procs :
        (pc[p] = "done" /\ resp[p].kind = "response" /\ req[p].method # "OPTIONS")
        => /\ {"X-RateLimit-Limit", "X-RateLimit-Remaining", "Access-Control-Allow-Methods"}
                 \subseteq HeaderNames(resp[p].hdrs)
           /\ resp[p].status = 429
              => {"X-RateLimit-Reset", "Retry-After"} \subseteq HeaderNames(resp[p].hdrs)

\* C14: no invocation ends with an error leaving onRequest: every finished
\* invocation has a response built by the handler, the 204 preflight
\* response or one labelled application/json.
C14_NoUnhandledFault ==
    \A p \in Procs :
        /\ resp[p].kind # "fault"
        /\ pc[p] = "done"
           => /\ resp[p].kind = "response"
              /\ \/ req[p].method = "OPTIONS" /\ resp[p].status = 204
                 \/ <<"Content-Type", "application/json">> \in resp[p].hdrs

\* C15: when the upstream answered with an HTTP response, the client gets
\* the upstream's status and its payload (as received, or re-encoded JSON);
\* a 502 is returned only when the fetch itself failed.
C15_RelaysUpstreamVerbatim ==
    \A p \in Procs :
        pc[p] = "done"
        => LET up == local[p].upstream
           IN  /\ up.status # 0
                  => /\ resp[p].kind = "response"
                     /\ resp[p].status = up.status
                     /\ \/ resp[p].payload = up.body
                        \/ JsonValid(up.body) /\ resp[p].payload = JsonCanon[up.body]
               /\ resp[p].status = 502 => (up.status = 0 /\ Len(calls[p]) = 1)

\* C16: every invocation that is suspended at an await eventually returns
\* a response, even if the upstream never answers.
C16_EveryRequestAnswered ==
    \A p \in Procs : Suspended(p) ~> (pc[p] = "done")

\* The values of the Access-Control-Allow-Origin headers of a response.
AllowOrigin(hdrs) == {h[2] : h \in {g \in hdrs : g[1] = "Access-Control-Allow-Origin"}}

\* C17: on every response, preflight included, Access-Control-Allow-Origin
\* is an allow-listed origin. Variant A (strict) emits it, with
\* Access-Control-Allow-Credentials: true, exactly when the request's
\* Origin is allow-listed; variant B (lenient) always emits it, as the
\* request's Origin if allow-listed and the default origin otherwise. An
\* Origin that is not allow-listed is never echoed.
C17_AllowOriginIsAllowListed ==
    \A p \in Procs :
        (pc[p] = "done" /\ resp[p].kind = "response")
        => LET acao == AllowOrigin(resp[p].hdrs)
               credentials == <<"Access-Control-Allow-Credentials", "true">> \in resp[p].hdrs
               o == req[p].origin
           IN  /\ acao \subseteq ALLOWED_ORIGINS
               /\ o \notin ALLOWED_ORIGINS => o \notin acao
               /\ IF variant = "A"
                  THEN IF o \in ALLOWED_ORIGINS
                       THEN acao = {o} /\ credentials
                       ELSE acao = {} /\ ~credentials
                  ELSE acao = {IF o \in ALLOWED_ORIGINS THEN o ELSE "https://prioai.ca"}

\* Variant B answered a preflight from an origin that is not allow-listed
\* with the default origin.
C17_Witness ==
    \E p \in Procs :
        /\ variant = "B"
        /\ pc[p] = "done"
        /\ req[p].method = "OPTIONS"
        /\ req[p].origin = "https://evil.example"
        /\ AllowOrigin(resp[p].hdrs) = {"https://prioai.ca"}

\* Text s occurs in text t.
Contains(t, s) == \E i \in 1 .. Len(t) - Len(s) + 1 : SubSeq(t, i, i + Len(s) - 1) = s

\* C18: the headers of an upstream call are a function of the server's
\* secret alone: exactly Authorization: Bearer <secret> and Content-Type:
\* application/json, whatever headers the client sent (its own
\* Authorization included); no header of a response contains the secret.
C18_UpstreamHeadersFromSecretOnly ==
    \A p \in Procs :
        /\ \A i \in 1 .. Len(calls[p]) :
              calls[p][i].hdrs = {<<"Authorization", "Bearer " \o req[p].token>>,
                                  <<"Content-Type", "application/json">>}
        /\ req[p].token # ""
           => \A h \in resp[p].hdrs : ~Contains(h[2], req[p].token)

\* A client that sent its own Authorization header from an origin that is
\* not allow-listed had its request forwarded with the server's secret.
C18_Witness ==
    \E p \in Procs :
        /\ req[p].auth = "Bearer client"
        /\ req[p].origin = "https://evil.example"
        /\ pc[p] = "done"
        /\ resp[p].status = 200
        /\ Len(calls[p]) = 1
        /\ <<"Authorization", "Bearer secret">> \in calls[p][1].hdrs

\* C19: every record's count is between 1 and RATE_LIMIT. A call of
\* checkRateLimit never changes the record of another client; a rejected
\* call leaves the whole map unchanged (count and window start stay), so
\* rejections do not postpone the expiry of the window; and a call made
\* more than RATE_WINDOW after the window start is admitted.
C19_RecordsBoundedRejectsInert ==
    [][/\ \A ip \in DOMAIN rateLimitStore' :
             rateLimitStore'[ip].count >= 1 /\ rateLimitStore'[ip].count <= RATE_LIMIT
       /\ \A p \in Procs :
             (pc[p] = "idle" /\ pc'[p] # "idle" /\ local'[p].checked)
             => LET key == StoreKey(req'[p])
                IN  /\ \A other \in DOMAIN rateLimitStore :
                          other # key
                          => /\ other \in DOMAIN rateLimitStore'
                             /\ rateLimitStore'[other] = rateLimitStore[other]
                    /\ ~local'[p].rateLimit.allowed
                       => /\ rateLimitStore' = rateLimitStore
                          /\ resp'[p].status = 429
                    /\ (/\ key \in DOMAIN rateLimitStore
                        /\ now - WindowStart(rateLimitStore[key]) > RATE_WINDOW)
                       => local'[p].rateLimit.allowed]_vars

\* A client is rejected exactly RATE_WINDOW after its window started, its
\* record unmoved, while another client has a record of its own.
C19_Witness ==
    \E p \in Procs :
        /\ pc[p] = "done"
        /\ resp[p].status = 429
        /\ rateLimitStore[StoreKey(req[p])].count = RATE_LIMIT
        /\ now - WindowStart(rateLimitStore[StoreKey(req[p])]) = RATE_WINDOW
        /\ lastCheck.time = now
        /\ Cardinality(DOMAIN rateLimitStore) = 2

\* C20: in every interval of length RATE_WINDOW, wherever it starts, at
\* most 2 * RATE_LIMIT requests of one client are admitted.
C20_AtMostTwiceTheLimit ==
    \A ip \in DOMAIN admitLog : AdmittedWithin(ip, RATE_WINDOW) <= 2 * RATE_LIMIT

\* A burst across a window boundary: more than RATE_LIMIT requests of one
\* client admitted within RATE_WINDOW, the last of them in a window that
\* has just started.
C20_Witness ==
    \E ip \in DOMAIN admitLog :
        /\ AdmittedWithin(ip, RATE_WINDOW) = 2 * RATE_LIMIT - 1
        /\ AdmittedWithin(ip, RATE_WINDOW) > RATE_LIMIT
        /\ WindowStart(rateLimitStore[ip]) = now
        /\ rateLimitStore[ip].count = RATE_LIMIT

====
